---- MODULE Spec2Model ----
(***************************************************************************)
(* Model of the Andor AMH200-FOS shutter adapter (AndorAMH.cpp/.h).        *)
(*                                                                         *)
(* The adapter object is driven through the device API (Initialize,        *)
(* Shutdown, SetOpen, GetOpen, Busy) and through its property handlers     *)
(* (OnState, OnPort, OnDelay, OnIntensity), which the property layer       *)
(* invokes after it has stored the new value in the property.  Every       *)
(* command goes through SetShutterPosition, one blocking round trip on     *)
(* the serial port: purge, send, receive.                                  *)
(*                                                                         *)
(* Text (commands, replies) is a sequence of one-character strings.        *)
(* Time is in microseconds, as MM::MMTime; the delay property is in        *)
(* milliseconds.                                                           *)
(***************************************************************************)
EXTENDS Integers, Sequences, FiniteSets, TLC

VARIABLES
    initialized_,   \* AndorAMH::initialized_
    port_,          \* AndorAMH::port_
    changedTime_,   \* AndorAMH::changedTime_ (microseconds)
    intensity_,     \* AndorAMH::intensity_
    curState_,      \* AndorAMH::curState_
    delayMs_,       \* CDeviceBase delay, GetDelayMs()/SetDelayMs()
    created,        \* Initialize has created the State/Delay/Intensity properties
    stateProp,      \* cached value of the State property
    portProp,       \* cached value of the Port property
    now,            \* GetCurrentMMTime() (microseconds)
    wire,           \* the last command text put on the serial port
    openedAt,       \* time of the last command if it was a SetOpen(true) that
                    \* returned DEVICE_OK, else -1
    opened,         \* a SetOpen call has returned DEVICE_OK since construction
    call            \* the operation that ran in the last step: inputs and outcome

vars == <<initialized_, port_, changedTime_, intensity_, curState_, delayMs_,
          created, stateProp, portProp, now, wire, openedAt, opened, call>>

----------------------------------------------------------------------------
(* Bounds of the model *)

\* number of clock ticks the model lets pass
MaxTicks == 2
\* largest delay (ms) a caller sets
MaxDelayMs == 1

\* MM::MMTime counts microseconds: Busy() takes GetDelayMs() * 1000.0
UsPerMs == 1000

\* one clock tick is half a millisecond, in microseconds
TickUs == UsPerMs \div 2

----------------------------------------------------------------------------
(* Program constants *)

DEVICE_OK == 0
ERR_PORT_CHANGE_FORBIDDEN == 10004
ERR_UNRECOGNIZED_ANSWER == 10009
ERR_OFFSET == 10100

\* return codes of the serial layer: a failed purge or send, a receive timeout
SerialCommandFailed == 14
SerialTimeout == 17
\* return code of the property layer when a value is outside the property's limits
InvalidPropertyValue == 3

DefaultPort == "Andor-AMH200-FOS"
OtherPort == "COM1"
Ports == {DefaultPort, OtherPort}

\* SetPropertyLimits(intensityPropName, 1, 100)
IntensityLowerLimit == 1
IntensityUpperLimit == 100

----------------------------------------------------------------------------
(* Text helpers *)

NoText == <<>>

DigitChars == <<"0", "1", "2", "3", "4", "5", "6", "7", "8", "9">>

IsDigit(c) == \E d \in 1..10 : DigitChars[d] = c

DigitValue(c) == (CHOOSE d \in 1..10 : DigitChars[d] = c) - 1

RECURSIVE FormatNat(_)
\* operator<<(long) for a non-negative value: decimal digits, no padding
FormatNat(n) ==
    IF n < 10 THEN <<DigitChars[n + 1]>>
    ELSE FormatNat(n \div 10) \o <<DigitChars[(n % 10) + 1]>>

\* operator<<(long): decimal text with a leading '-' for negative values
FormatLong(n) == IF n < 0 THEN <<"-">> \o FormatNat(-n) ELSE FormatNat(n)

\* std::string::substr(pos, len); pos is 0-based and never beyond the length here
Substr(s, pos, len) ==
    SubSeq(s, pos + 1, IF pos + len > Len(s) THEN Len(s) ELSE pos + len)

\* std::string::substr(pos): the rest of the string from 0-based index pos
SubstrFrom(s, pos) == SubSeq(s, pos + 1, Len(s))

RECURSIVE SkipSpace(_)
SkipSpace(s) ==
    IF s # <<>> /\ Head(s) = " " THEN SkipSpace(Tail(s)) ELSE s

RECURSIVE AtoiDigits(_, _)
\* the value of the longest run of digits at the start of s, acc so far
AtoiDigits(s, acc) ==
    IF s # <<>> /\ IsDigit(Head(s))
    THEN AtoiDigits(Tail(s), acc * 10 + DigitValue(Head(s)))
    ELSE acc

\* atoi: skip white space, an optional sign, then digits up to the first
\* non-digit; 0 when there is no digit
Atoi(s) ==
    LET t == SkipSpace(s) IN
    IF t # <<>> /\ Head(t) = "-" THEN 0 - AtoiDigits(Tail(t), 0)
    ELSE IF t # <<>> /\ Head(t) = "+" THEN AtoiDigits(Tail(t), 0)
    ELSE AtoiDigits(t, 0)

LightPrefix == <<"L", "I", "G", "H", "T", ",">>

\* a variant that sends the stored intensity whatever the state
CommandText_AlwaysIntensity(state, intensity) ==
    LightPrefix \o FormatLong(intensity)

\* a variant with the two arms of the choice swapped
CommandText_Inverted(state, intensity) ==
    LightPrefix \o FormatLong(IF state THEN 0 ELSE intensity)

\* command << "LIGHT," << (state ? intensity_ : 0)
CommandText(state, intensity) ==
    LightPrefix \o FormatLong(IF state THEN intensity ELSE 0)

----------------------------------------------------------------------------
(* Inputs *)

\* reply lines the device (or line noise) can produce, terminator stripped
Replies ==
    { <<>>,
      <<"R">>,
      <<"E", ",">>,
      <<"E", ",", "5">>,
      <<"E", ",", "x">>,
      <<"E", ",", "-", "1", "0", "1", "0", "0">>,
      <<"X", ",", "5">> }

\* what the serial port does during one round trip: the step that fails and
\* its code, or all three steps succeed and answer is the line received
TransportOutcomes ==
    { [fails |-> "purge", code |-> SerialCommandFailed, answer |-> NoText],
      [fails |-> "send", code |-> SerialCommandFailed, answer |-> NoText],
      [fails |-> "receive", code |-> SerialTimeout, answer |-> NoText] }
    \cup [fails : {"none"}, code : {DEVICE_OK}, answer : Replies]

\* intensities a caller asks for: inside and outside the property's limits
Levels == {0, 1, 10, 100, 101}

Delays == 0..MaxDelayMs

----------------------------------------------------------------------------
(* SetShutterPosition *)

FullRoundTrip == <<"purge", "send", "receive">>

\* a variant that sends a second time when the first send fails
StepsRun_RetrySend(tr) ==
    IF tr.fails = "purge" THEN <<"purge">>
    ELSE IF tr.fails = "send" THEN <<"purge", "send", "send">>
    ELSE <<"purge", "send", "receive">>

\* the transport steps a round trip performs when the port behaves as tr:
\* each step runs only if the one before it returned DEVICE_OK
StepsRun(tr) ==
    IF tr.fails = "purge" THEN <<"purge">>
    ELSE IF tr.fails = "send" THEN <<"purge", "send">>
    ELSE FullRoundTrip

\* a variant that stamps the time only for an acknowledged command
StampedTime_OnAckOnly(oldTime, t, tr) ==
    IF tr.fails = "none" /\ Substr(tr.answer, 0, 1) = <<"R">> THEN t ELSE oldTime

\* a variant that stamps the time before the port is touched
StampedTime_BeforeIO(oldTime, t, tr) == t

\* changedTime_ after a round trip at time t: stamped once the answer has been
\* read, before it is looked at; untouched when a transport step failed
StampedTime(oldTime, t, tr) ==
    IF tr.fails = "none" THEN t ELSE oldTime

\* the value returned for an answer: "R..." is success, "E" with more than two
\* characters is ERR_OFFSET plus the number from index 2, anything else falls
\* through to the final return DEVICE_OK
AnswerCode(answer) ==
    IF Substr(answer, 0, 1) = <<"R">> THEN DEVICE_OK
    ELSE IF Substr(answer, 0, 1) = <<"E">> /\ Len(answer) > 2
         THEN ERR_OFFSET + Atoi(SubstrFrom(answer, 2))
         ELSE DEVICE_OK

\* The result of SetShutterPosition(state) at time t with intensity_ = intensity
\* when the port behaves as tr: the value returned, the new changedTime_, the
\* transport steps performed, the command handed to the port and the answer read.
SetShutterPosition(state, intensity, oldTime, t, tr) ==
    [ret |-> IF tr.fails = "none" THEN AnswerCode(tr.answer) ELSE tr.code,
     time |-> StampedTime(oldTime, t, tr),
     io |-> StepsRun(tr),
     sent |-> IF tr.fails = "purge" THEN NoText ELSE CommandText(state, intensity),
     answer |-> IF tr.fails = "none" THEN tr.answer ELSE NoText]

\* the command now last on the line after a round trip r
WireAfter(r) == IF r.sent # NoText THEN r.sent ELSE wire

----------------------------------------------------------------------------
(* State *)

\* the record of an operation that did no transport I/O
Quiet(op, arg, ret) ==
    [op |-> op, arg |-> arg, ret |-> ret, io |-> <<>>, sent |-> NoText,
     answer |-> NoText, received |-> FALSE, out |-> FALSE]

\* the record of a query that returned ret and answered out
Asked(op, ret, out) ==
    [op |-> op, arg |-> 0, ret |-> ret, io |-> <<>>, sent |-> NoText,
     answer |-> NoText, received |-> FALSE, out |-> out]

\* the record of an operation that ran the round trip r and returned ret
Traded(op, arg, ret, r, tr) ==
    [op |-> op, arg |-> arg, ret |-> ret, io |-> r.io, sent |-> r.sent,
     answer |-> r.answer, received |-> (tr.fails = "none"), out |-> FALSE]

\* AndorAMH::AndorAMH()
Init ==
    /\ initialized_ = FALSE
    /\ changedTime_ = 0
    /\ intensity_ = 1
    /\ curState_ = FALSE
    /\ port_ = DefaultPort
    /\ delayMs_ = 0
    /\ created = FALSE
    /\ stateProp = 0
    /\ portProp = DefaultPort
    /\ now = 0
    /\ wire = NoText
    /\ openedAt = -1
    /\ opened = FALSE
    /\ call = Quiet("construct", 0, DEVICE_OK)

\* the clock advances
Tick ==
    /\ now < MaxTicks * TickUs
    /\ now' = now + TickUs
    /\ call' = Quiet("Tick", 0, DEVICE_OK)
    /\ UNCHANGED <<initialized_, port_, changedTime_, intensity_, curState_, delayMs_,
                   created, stateProp, portProp, wire, openedAt, opened>>

\* AndorAMH::Initialize(): creates the properties, pushes curState_ through the
\* State property (which runs OnState and so one round trip whose result is
\* dropped), stamps changedTime_ and sets initialized_.
Initialize ==
    /\ ~created
    /\ \E tr \in TransportOutcomes :
        LET r == SetShutterPosition(curState_, intensity_, changedTime_, now, tr) IN
        /\ created' = TRUE
        /\ portProp' = port_
        /\ stateProp' = IF curState_ THEN 1 ELSE 0
        /\ curState_' = curState_
        /\ changedTime_' = now
        /\ initialized_' = TRUE
        /\ wire' = WireAfter(r)
        /\ call' = Traded("Initialize", 0, DEVICE_OK, r, tr)
    /\ openedAt' = -1
    /\ UNCHANGED <<port_, intensity_, delayMs_, now, opened>>

\* a variant that clears initialized_ whatever the close returned
StillInitialized_Never(ret) == FALSE

\* Shutdown: a close that does not return DEVICE_OK returns early and leaves
\* initialized_ set
StillInitialized(ret) == ret # DEVICE_OK

\* AndorAMH::Shutdown(): when initialized, one close round trip; initialized_
\* is cleared only when that round trip returns DEVICE_OK.
Shutdown ==
    /\ IF initialized_ THEN
          \E tr \in TransportOutcomes :
            LET r == SetShutterPosition(FALSE, intensity_, changedTime_, now, tr) IN
            /\ changedTime_' = r.time
            /\ wire' = WireAfter(r)
            /\ initialized_' = StillInitialized(r.ret)
            /\ openedAt' = -1
            /\ call' = Traded("Shutdown", 0, r.ret, r, tr)
       ELSE
            /\ call' = Quiet("Shutdown", 0, DEVICE_OK)
            /\ UNCHANGED <<changedTime_, wire, initialized_, openedAt>>
    /\ UNCHANGED <<port_, intensity_, curState_, delayMs_, created, stateProp,
                   portProp, now, opened>>

\* a variant with the two positions swapped
PositionOf_Swapped(open) == IF open THEN 0 ELSE 1

\* SetOpen: pos = 1 when open, else 0
PositionOf(open) == IF open THEN 1 ELSE 0

\* OnState: curState_ = pos == 0 ? false : true
StateOf(pos) == pos # 0

\* AndorAMH::SetOpen(open): SetProperty(State, pos), which stores pos in the
\* property and then runs OnState(AfterSet): curState_ = pos, then
\* SetShutterPosition(curState_), whose result is returned.
SetOpen ==
    /\ created
    /\ \E open \in BOOLEAN, tr \in TransportOutcomes :
        LET r == SetShutterPosition(StateOf(PositionOf(open)), intensity_,
                                    changedTime_, now, tr) IN
        /\ stateProp' = PositionOf(open)
        /\ curState_' = StateOf(PositionOf(open))
        /\ changedTime_' = r.time
        /\ wire' = WireAfter(r)
        /\ openedAt' = IF open /\ r.ret = DEVICE_OK THEN now ELSE -1
        /\ opened' = (opened \/ r.ret = DEVICE_OK)
        /\ call' = Traded("SetOpen", IF open THEN 1 ELSE 0, r.ret, r, tr)
    /\ UNCHANGED <<initialized_, port_, intensity_, delayMs_, created, portProp, now>>

\* a variant that never refuses a port change
PortLocked_Never(initialized) == FALSE

\* OnPort: if (initialized_) the change is refused
PortLocked(initialized) == initialized

\* AndorAMH::OnPort(AfterSet): the property already holds the new value p;
\* when initialized the property is put back to port_ and the change refused.
OnPort ==
    /\ \E p \in Ports :
        IF PortLocked(initialized_) THEN
            /\ portProp' = port_
            /\ port_' = port_
            /\ call' = Quiet("OnPort", p, ERR_PORT_CHANGE_FORBIDDEN)
        ELSE
            /\ portProp' = p
            /\ port_' = p
            /\ call' = Quiet("OnPort", p, DEVICE_OK)
    /\ UNCHANGED <<initialized_, changedTime_, intensity_, curState_, delayMs_,
                   created, stateProp, now, wire, openedAt, opened>>

\* AndorAMH::OnDelay(AfterSet): SetDelayMs(delay)
OnDelay ==
    /\ created
    /\ \E d \in Delays :
        /\ delayMs_' = d
        /\ call' = Quiet("OnDelay", d, DEVICE_OK)
    /\ UNCHANGED <<initialized_, port_, changedTime_, intensity_, curState_,
                   created, stateProp, portProp, now, wire, openedAt, opened>>

\* a variant whose lower limit lets 0 through
WithinIntensityLimits_ZeroAllowed(level) ==
    level >= 0 /\ level <= IntensityUpperLimit

\* the limits Initialize puts on the Intensity property:
\* SetPropertyLimits(intensityPropName, 1, 100)
WithinIntensityLimits(level) ==
    level >= IntensityLowerLimit /\ level <= IntensityUpperLimit

\* a variant that sends a command on every accepted intensity change
ReissuesCommand_Always(curState) == TRUE

\* OnIntensity: if (curState_) the command is issued again
ReissuesCommand(curState) == curState

\* Setting the Intensity property to level.  The property layer refuses a value
\* outside the property's limits before any handler runs; otherwise
\* AndorAMH::OnIntensity(AfterSet) stores it in intensity_ and, when curState_
\* is set, runs SetShutterPosition(curState_) and returns its result.
OnIntensity ==
    /\ created
    /\ \E level \in Levels :
        IF ~WithinIntensityLimits(level) THEN
            /\ call' = Quiet("OnIntensity", level, InvalidPropertyValue)
            /\ UNCHANGED <<intensity_, changedTime_, wire, openedAt>>
        ELSE IF ReissuesCommand(curState_) THEN
            \E tr \in TransportOutcomes :
              LET r == SetShutterPosition(curState_, level, changedTime_, now, tr) IN
              /\ intensity_' = level
              /\ changedTime_' = r.time
              /\ wire' = WireAfter(r)
              /\ openedAt' = -1
              /\ call' = Traded("OnIntensity", level, r.ret, r, tr)
        ELSE
            /\ intensity_' = level
            /\ call' = Quiet("OnIntensity", level, DEVICE_OK)
            /\ UNCHANGED <<changedTime_, wire, openedAt>>
    /\ UNCHANGED <<initialized_, port_, curState_, delayMs_, created, stateProp,
                   portProp, now, opened>>

\* a variant that is still busy when the interval equals the delay
BusyAt_Inclusive(t) ==
    LET interval == t - changedTime_
        delay == delayMs_ * UsPerMs
    IN interval <= delay

\* AndorAMH::Busy() evaluated at time t: interval < delay, both in microseconds
BusyAt(t) ==
    LET interval == t - changedTime_
        delay == delayMs_ * UsPerMs
    IN interval < delay

\* a variant in which asking restarts the busy window
Busy_Stamping ==
    /\ call' = Asked("Busy", DEVICE_OK, BusyAt(now))
    /\ changedTime_' = now
    /\ UNCHANGED <<initialized_, port_, intensity_, curState_, delayMs_,
                   created, stateProp, portProp, now, wire, openedAt, opened>>

\* AndorAMH::Busy()
Busy ==
    /\ call' = Asked("Busy", DEVICE_OK, BusyAt(now))
    /\ UNCHANGED <<initialized_, port_, changedTime_, intensity_, curState_, delayMs_,
                   created, stateProp, portProp, now, wire, openedAt, opened>>

\* what AndorAMH::GetOpen(open) stores in open: the State property reads 1
IsOpen == stateProp = 1

\* AndorAMH::GetOpen(open)
GetOpen ==
    /\ created
    /\ call' = Asked("GetOpen", DEVICE_OK, IsOpen)
    /\ UNCHANGED <<initialized_, port_, changedTime_, intensity_, curState_, delayMs_,
                   created, stateProp, portProp, now, wire, openedAt, opened>>

Next ==
    \/ Tick
    \/ Initialize
    \/ Shutdown
    \/ SetOpen
    \/ OnPort
    \/ OnDelay
    \/ OnIntensity
    \/ Busy
    \/ GetOpen

Spec == Init /\ [][Next]_vars

----------------------------------------------------------------------------
(* Reply classes, as the protocol description names them *)

\* acknowledged: the first character is 'R'
IsAckReply(a) == a # <<>> /\ a[1] = "R"

\* device error: the first character is 'E' and the reply is longer than 2
IsDeviceErrorReply(a) == a # <<>> /\ a[1] = "E" /\ Len(a) > 2

\* malformed: empty, or another first character, or 'E' with length <= 2
IsMalformedReply(a) == ~IsAckReply(a) /\ ~IsDeviceErrorReply(a)

\* the enable argument of the SetOpen call recorded in c
Enable(c) == c.arg = 1

----------------------------------------------------------------------------
(* Properties *)

\* C1: when open(enable) completes its round trip and the reply is a device
\* error or malformed, isOpen() after the call equals isOpen() before it.
C1_ErrorReplyKeepsOpenFlag ==
    [][ (call'.op = "SetOpen" /\ call'.received /\ ~IsAckReply(call'.answer))
        => (IsOpen' = IsOpen) ]_vars

\* C2: a malformed reply makes open(enable) return the unrecognized-answer
\* error, never success.
C2_MalformedReplyIsUnrecognizedAnswer ==
    (call.op = "SetOpen" /\ call.received /\ IsMalformedReply(call.answer))
        => (call.ret = ERR_UNRECOGNIZED_ANSWER /\ call.ret # DEVICE_OK)

\* C3: an acknowledged open(enable) returns success and leaves isOpen() equal
\* to enable; and the open flag moves in no other way than closed to open in
\* an open(true) step and open to closed in an open(false) step.
C3_AckCommitsEnable ==
    [][ /\ (call'.op = "SetOpen" /\ call'.received /\ IsAckReply(call'.answer))
            => (call'.ret = DEVICE_OK /\ IsOpen' = Enable(call'))
        /\ (IsOpen' # IsOpen)
            => (call'.op = "SetOpen" /\ IsOpen' = Enable(call')) ]_vars

\* C3 witness: an acknowledged open(true) has opened a closed shutter and an
\* acknowledged open(false) can follow
C3_Witness ==
    /\ call.op = "SetOpen"
    /\ call.received
    /\ IsAckReply(call.answer)
    /\ Enable(call)
    /\ call.ret = DEVICE_OK
    /\ IsOpen

\* C4: when the purge of open(enable) fails, the call returns the transport
\* error, no command is sent, and the open flag, the stored intensity and the
\* last-change time keep their values.
C4_PurgeFailureChangesNothing ==
    [][ (call'.op = "SetOpen" /\ call'.io = <<"purge">>)
        => (/\ call'.ret = SerialCommandFailed
            /\ call'.sent = NoText
            /\ wire' = wire
            /\ IsOpen' = IsOpen
            /\ intensity_' = intensity_
            /\ changedTime_' = changedTime_) ]_vars

\* C5: whenever open(enable) completes a round trip, the last-change time is
\* the time of the call whatever the reply is, so the busy window starts over:
\* right after the call the controller is busy exactly when the delay is
\* positive.
C5_RoundTripStampsTime ==
    (call.op = "SetOpen" /\ call.received)
        => (changedTime_ = now /\ (BusyAt(now) <=> delayMs_ > 0))

\* C5 witness: a round trip that ended in a device error, later than the
\* previous stamp, has moved the stamp to the time of the call
C5_Witness ==
    /\ call.op = "SetOpen"
    /\ call.received
    /\ IsDeviceErrorReply(call.answer)
    /\ call.ret # DEVICE_OK
    /\ now > 0
    /\ changedTime_ = now
    /\ delayMs_ > 0

C7_BusyWindowAfterOpen ==
    (openedAt >= 0)
        => (/\ IsOpen
            /\ BusyAt(now) <=> (now - openedAt < delayMs_ * 1000)
            /\ (delayMs_ = 0 => ~BusyAt(now))
            /\ (call.op = "Busy" => (call.out <=> (now - openedAt < delayMs_ * 1000)))
            /\ (call.op = "GetOpen" => call.out))

\* C7 witness: Busy() asked exactly when the delay has elapsed answers false
C7_Witness ==
    /\ openedAt >= 0
    /\ delayMs_ > 0
    /\ now - openedAt = delayMs_ * 1000
    /\ call.op = "Busy"
    /\ ~call.out

\* the state a command-issuing operation asks the shutter to take
RequestedOpen ==
    IF call.op = "SetOpen" THEN Enable(call)
    ELSE IF call.op = "Shutdown" THEN FALSE
    ELSE curState_

\* text is the canonical decimal numeral of n >= 0
IsDecimalOf(text, n) ==
    /\ Len(text) >= 1
    /\ \A i \in 1..Len(text) : IsDigit(text[i])
    /\ (Len(text) > 1 => text[1] # "0")
    /\ Atoi(text) = n

\* C8: every command text sent is "LIGHT,<n>" with n the stored intensity
\* when the requested state is open and 0 when it is closed, the stored
\* intensity being in 1..100.
C8_CommandEncodesLevel ==
    (call.sent # NoText)
        => (/\ intensity_ \in 1..100
            /\ Len(call.sent) > Len(LightPrefix)
            /\ SubSeq(call.sent, 1, Len(LightPrefix)) = LightPrefix
            /\ IsDecimalOf(SubSeq(call.sent, Len(LightPrefix) + 1, Len(call.sent)),
                           IF RequestedOpen THEN intensity_ ELSE 0)
            /\ wire = call.sent)

\* C8 witness: a close command sent while the stored intensity is 100, after
\* an open command carried that intensity
C8_Witness ==
    /\ call.op = "SetOpen"
    /\ ~Enable(call)
    /\ intensity_ = 100
    /\ call.sent = LightPrefix \o <<"0">>

\* C9: right after construction and Initialize the state is closed, the delay
\* is 0 and the stored intensity is 100, so that an open(true) would send
\* "LIGHT,100".
C9_DefaultIntensityIs100 ==
    (call.op = "Initialize")
        => (/\ ~IsOpen
            /\ delayMs_ = 0
            /\ intensity_ = 100
            /\ CommandText(TRUE, intensity_) = LightPrefix \o <<"1", "0", "0">>)

\* C10: setting an intensity below 1 or above 100 fails, does no transport
\* I/O and leaves the stored intensity unchanged; the stored intensity is in
\* 1..100 in every state.
C10_IntensityStaysInRange ==
    /\ intensity_ \in 1..100
    /\ [][ /\ intensity_' \in 1..100
           /\ (call'.op = "OnIntensity" /\ (call'.arg < 1 \/ call'.arg > 100))
               => (/\ call'.ret = InvalidPropertyValue
                   /\ call'.ret # DEVICE_OK
                   /\ call'.io = <<>>
                   /\ call'.sent = NoText
                   /\ wire' = wire
                   /\ changedTime_' = changedTime_
                   /\ intensity_' = intensity_) ]_vars

\* C10 witness: intensity 0 refused while the shutter is open, when an
\* accepted value would have gone out on the port
C10_Witness ==
    /\ call.op = "OnIntensity"
    /\ call.arg = 0
    /\ call.ret = InvalidPropertyValue
    /\ curState_
    /\ intensity_ = 10

\* text is the command "LIGHT,<n>"
IsLightCommand(text, n) ==
    /\ Len(text) > Len(LightPrefix)
    /\ SubSeq(text, 1, Len(LightPrefix)) = LightPrefix
    /\ IsDecimalOf(SubSeq(text, Len(LightPrefix) + 1, Len(text)), n)

\* level is a valid intensity
ValidLevel(level) == level \in 1..100

\* C11: setting a valid intensity while the controller is open stores the
\* level and at once runs exactly one round trip whose command, when one is
\* sent, is "LIGHT,<level>" with the new level; the call returns that round
\* trip's outcome.
C11_IntensityWhileOpenReissues ==
    [][ (call'.op = "OnIntensity" /\ ValidLevel(call'.arg) /\ IsOpen)
        => (/\ intensity_' = call'.arg
            /\ call'.io # <<>>
            /\ \E n \in 1..Len(FullRoundTrip) : call'.io = SubSeq(FullRoundTrip, 1, n)
            /\ (Len(call'.io) > 1 <=> call'.sent # NoText)
            /\ (call'.sent # NoText
                 => (IsLightCommand(call'.sent, call'.arg) /\ wire' = call'.sent))
            /\ (~call'.received
                 => call'.ret \in {SerialCommandFailed, SerialTimeout})
            /\ ((call'.received /\ IsAckReply(call'.answer))
                 => call'.ret = DEVICE_OK)
            /\ (call'.answer = <<"E", ",", "5">> => call'.ret = ERR_OFFSET + 5)
            /\ IsOpen') ]_vars

\* C11 witness: intensity 10 set on an open shutter went out as "LIGHT,10"
\* and was acknowledged
C11_Witness ==
    /\ call.op = "OnIntensity"
    /\ call.arg = 10
    /\ IsOpen
    /\ call.sent = LightPrefix \o <<"1", "0">>
    /\ IsAckReply(call.answer)
    /\ call.ret = DEVICE_OK
    /\ intensity_ = 10

\* C12 as stated: once the controller has been initialized and an open() has
\* succeeded, every setPort call fails with the port-locked error, does no
\* transport I/O and leaves the stored and the reported port as they were.
C12_PortLockedForEver ==
    [][ (call'.op = "OnPort" /\ created /\ opened)
        => (/\ call'.ret = ERR_PORT_CHANGE_FORBIDDEN
            /\ call'.io = <<>>
            /\ call'.sent = NoText
            /\ port_' = port_
            /\ portProp' = port_) ]_vars

\* C12 amended: once the controller has been initialized and an open() has
\* succeeded, every setPort call made while the controller is still
\* initialized (no shutdown has returned success since) fails with the
\* port-locked error, does no transport I/O and leaves the stored and the
\* reported port as they were.
C12_PortLockedWhileInitialized ==
    [][ (call'.op = "OnPort" /\ created /\ opened /\ initialized_)
        => (/\ call'.ret = ERR_PORT_CHANGE_FORBIDDEN
            /\ call'.io = <<>>
            /\ call'.sent = NoText
            /\ wire' = wire
            /\ port_' = port_
            /\ portProp' = port_) ]_vars

\* C12 witness: a change to another port was refused after a successful open
C12_Witness ==
    /\ call.op = "OnPort"
    /\ call.arg # port_
    /\ call.ret = ERR_PORT_CHANGE_FORBIDDEN
    /\ opened
    /\ initialized_
    /\ portProp = port_

\* C13: shutdown() on an initialized controller issues a close command and
\* returns its error, and the controller is torn down whether the close
\* succeeds or fails: a shutdown() that directly follows another shutdown()
\* issues no command and returns success.
C13_ShutdownTearsDownRegardless ==
    [][ /\ (call'.op = "Shutdown" /\ initialized_)
            => (/\ call'.io # <<>>
                /\ (call'.sent # NoText => IsLightCommand(call'.sent, 0))
                /\ ~initialized_')
        /\ (call'.op = "Shutdown" /\ call.op = "Shutdown")
            => (call'.io = <<>> /\ call'.sent = NoText /\ call'.ret = DEVICE_OK) ]_vars

\* text is an optionally signed decimal integer
IsIntegerText(text) ==
    LET digits == IF text # <<>> /\ text[1] \in {"-", "+"} THEN Tail(text) ELSE text
    IN  digits # <<>> /\ \A i \in 1..Len(digits) : IsDigit(digits[i])

\* the integer an optionally signed decimal text denotes
IntegerOf(text) ==
    IF text[1] = "-" THEN 0 - AtoiDigits(Tail(text), 0)
    ELSE IF text[1] = "+" THEN AtoiDigits(Tail(text), 0)
    ELSE AtoiDigits(text, 0)

\* C14: for a reply that starts with 'E', is longer than 2 and carries an
\* integer from index 2 on, open() returns the offset plus that integer, and
\* that value is never the success value.
C14_DeviceErrorIsOffsetPlusCode ==
    (/\ call.op = "SetOpen"
     /\ call.received
     /\ IsDeviceErrorReply(call.answer)
     /\ IsIntegerText(SubSeq(call.answer, 3, Len(call.answer))))
        => (/\ call.ret = ERR_OFFSET + IntegerOf(SubSeq(call.answer, 3, Len(call.answer)))
            /\ call.ret # DEVICE_OK)

\* the close command
LightZero == LightPrefix \o <<"0">>

\* a command has been sent, the open flag is false and the last command sent
\* is not the close command
ClosedButLastCommandOpen ==
    wire # NoText /\ ~IsOpen /\ wire # LightZero

C16_NonNumericCodeIsUnrecognizedAnswer ==
    (/\ call.op = "SetOpen"
     /\ call.received
     /\ IsDeviceErrorReply(call.answer)
     /\ ~IsIntegerText(SubSeq(call.answer, 3, Len(call.answer))))
        => call.ret = ERR_UNRECOGNIZED_ANSWER

\* C17: an open() call runs purge, send, receive in that order, each at most
\* once; a step that fails ends the call with its error, the later steps do
\* not run and nothing is tried again.
C17_OneOrderedRoundTrip ==
    (call.op = "SetOpen")
        => (/\ \E n \in 1..3 : call.io = SubSeq(<<"purge", "send", "receive">>, 1, n)
            /\ (call.received => Len(call.io) = 3)
            /\ (~call.received
                 => (/\ call.ret \in {SerialCommandFailed, SerialTimeout}
                     /\ call.answer = NoText))
            /\ (Len(call.io) = 1 => call.sent = NoText))

\* C17 witness: a send that failed ended the call after purge and send
C17_Witness ==
    /\ call.op = "SetOpen"
    /\ call.io = <<"purge", "send">>
    /\ call.ret = SerialCommandFailed
    /\ ~call.received

\* C18: isBusy() and isOpen() do no transport operation and leave the open
\* flag, the stored intensity, the delay, the port and the last-change time
\* unchanged.
C18_QueriesChangeNothing ==
    [][ (call'.op \in {"Busy", "GetOpen"})
        => (/\ call'.io = <<>>
            /\ call'.sent = NoText
            /\ wire' = wire
            /\ IsOpen' = IsOpen
            /\ curState_' = curState_
            /\ intensity_' = intensity_
            /\ delayMs_' = delayMs_
            /\ port_' = port_
            /\ portProp' = portProp
            /\ changedTime_' = changedTime_
            /\ initialized_' = initialized_) ]_vars

\* C18 witness: Busy() answered true inside the busy window of an open shutter
C18_Witness ==
    /\ call.op = "Busy"
    /\ call.out
    /\ IsOpen
    /\ wire # NoText
    /\ now > changedTime_

\* C19: setting a valid intensity while the controller is closed stores the
\* level, sends nothing and leaves the open flag and the last-change time
\* unchanged; an open(true) sends the level stored at that moment.
C19_IntensityWhileClosedIsSilent ==
    [][ /\ (call'.op = "OnIntensity" /\ ValidLevel(call'.arg) /\ ~IsOpen)
            => (/\ intensity_' = call'.arg
                /\ call'.ret = DEVICE_OK
                /\ call'.io = <<>>
                /\ call'.sent = NoText
                /\ wire' = wire
                /\ IsOpen' = IsOpen
                /\ changedTime_' = changedTime_)
        /\ (call'.op = "SetOpen" /\ Enable(call') /\ call'.sent # NoText)
            => IsLightCommand(call'.sent, intensity_) ]_vars

\* C19 witness: 100 stored on a closed shutter some time after the close
\* command of Initialize, which is still the last command on the port
C19_Witness ==
    /\ call.op = "OnIntensity"
    /\ call.arg = 100
    /\ call.ret = DEVICE_OK
    /\ ~IsOpen
    /\ intensity_ = 100
    /\ wire = LightZero
    /\ changedTime_ < now

\* C20: the port lock follows initialized_: setPort is accepted before
\* Initialize, refused from the moment Initialize has run, accepted again
\* after a shutdown() whose close returned success and still refused after a
\* shutdown() whose close failed.
C20_PortLockFollowsInitialized ==
    /\ ~initialized_
    /\ [][ /\ (call'.op = "OnPort" /\ initialized_)
               => (call'.ret = ERR_PORT_CHANGE_FORBIDDEN /\ port_' = port_
                   /\ portProp' = port_)
           /\ (call'.op = "OnPort" /\ ~initialized_)
               => (call'.ret = DEVICE_OK /\ port_' = call'.arg
                   /\ portProp' = call'.arg)
           /\ (~created' => ~initialized_')
           /\ (call'.op = "Initialize" => initialized_')
           /\ (call'.op = "Shutdown"
               => (initialized_' <=> (initialized_ /\ call'.ret # DEVICE_OK)))
           /\ (call'.op \notin {"Initialize", "Shutdown"}
               => initialized_' = initialized_) ]_vars

\* C20 witness: a port change accepted after a shutdown that returned success
C20_Witness ==
    /\ call.op = "OnPort"
    /\ call.ret = DEVICE_OK
    /\ created
    /\ ~initialized_
    /\ port_ = OtherPort

====
